---- MODULE Spec2Model ----
(***************************************************************************)
(* Client side of the NeuroOil training pipeline: the progress reconciler  *)
(* of TrainingPage, the stream subscription of useTrainingProgress and     *)
(* subscribeToTrainingProgress, the persist effect of TrainingDashboard    *)
(* and the localStorage snapshot store.                                    *)
(*                                                                         *)
(* JavaScript values are encoded as follows.  A tick (TrainingProgress) is *)
(* a record whose optional fields hold Undef when the field is missing.    *)
(* A snapshot object (SavedTrainingData, Partial<SavedTrainingData>) is a  *)
(* function from the set of keys it has to their values, so that a key     *)
(* holding undefined and a missing key are different objects, as they are  *)
(* for the spread operator and for JSON.stringify.                         *)
(***************************************************************************)
EXTENDS Integers, Sequences, FiniteSets, TLC

\* ------------------------------------------------------------------ bounds
MaxEpoch == 1
MaxLen == 2
MaxClock == 1

\* ------------------------------------------------------------- JS values
Undef == "undefined"

Statuses == {"training", "completed", "error"}

\* loss values: 120 stands for the first report of an epoch (120.5 in the
\* end-to-end scenario), 95 for a later, lower one
Losses == {120, 95}

\* metrics and correlation_data are objects; the model keeps one of each
Metrics == {"m1"}
Correlations == {"c1"}

Tick == [epoch : 0..MaxEpoch, status : Statuses, loss : Losses,
         metrics : Metrics \cup {Undef}, correlation_data : Correlations \cup {Undef}]

\* The ticks a stream delivers.  A training tick carries no final metrics
\* and carries correlation data at epoch 0 (the "initial progress update" of
\* the restore effect); a terminal tick closes the last epoch: a completed
\* tick carries correlation data and, normally, metrics; an error tick
\* carries neither.  The loss takes two values at epoch 0 only, which is
\* enough for a tick that replaces another one of its epoch with new content.
TickInputs ==
    {t \in Tick :
        /\ t.status = "training" =>
              /\ t.metrics = Undef
              /\ (t.correlation_data # Undef) <=> (t.epoch = 0)
              /\ t.epoch # 0 => t.loss = 95
        /\ t.status = "completed" =>
              /\ t.epoch = MaxEpoch /\ t.loss = 95
              /\ t.correlation_data # Undef
        /\ t.status = "error" =>
              /\ t.epoch = MaxEpoch /\ t.loss = 95
              /\ t.metrics = Undef /\ t.correlation_data = Undef}

IsTerminal(t) == t.status = "completed" \/ t.status = "error"

SnapKeys == {"progressHistory", "correlationData", "finalMetrics", "timestamp"}

EmptyObj == [k \in {} |-> Undef]

Has(o, k) == k \in DOMAIN o

\* o.k : undefined when the key is missing
Get(o, k) == IF k \in DOMAIN o THEN o[k] ELSE Undef

\* { ...a, ...b }
Spread(a, b) ==
    [k \in (DOMAIN a) \cup (DOMAIN b) |-> IF k \in DOMAIN b THEN b[k] ELSE a[k]]

\* ------------------------------------------------------------ reconciler
\* mutant: the entry of the epoch keeps its old tick
MapKeepOld(prev, progress) == prev

RECURSIVE MapReplace(_, _)
MapReplace(prev, progress) ==
    IF prev = <<>> THEN <<>>
    ELSE <<IF Head(prev).epoch = progress.epoch THEN progress ELSE Head(prev)>>
         \o MapReplace(Tail(prev), progress)

\* mutant: no lookup of the epoch, every tick is appended
MergeAppendOnly(prev, progress) == Append(prev, progress)

\* the updater passed to setProgressHistory
Merge(prev, progress) ==
    IF \E i \in 1..Len(prev) : prev[i].epoch = progress.epoch
    THEN MapReplace(prev, progress)
    ELSE Append(prev, progress)

Epochs(h) == [i \in 1..Len(h) |-> h[i].epoch]

IsSorted(h) == \A i, j \in 1..Len(h) : i < j => h[i].epoch <= h[j].epoch

UniqueEpochs(h) == \A i, j \in 1..Len(h) : i # j => h[i].epoch # h[j].epoch

\* --------------------------------------------------------- snapshot store
\* Content of the localStorage slot STORAGE_KEY:
\*   none    - getItem returns null
\*   empty   - the empty string
\*   garbage - text JSON.parse rejects
\*   falsy   - JSON text of a falsy value (null, 0, false, "")
\*   num     - JSON text of a truthy value that is not an object (a number)
\*   obj     - JSON text of the object val
SlotNone == [kind |-> "none", val |-> EmptyObj]
SlotEmpty == [kind |-> "empty", val |-> EmptyObj]
SlotGarbage == [kind |-> "garbage", val |-> EmptyObj]
SlotFalsy == [kind |-> "falsy", val |-> EmptyObj]
SlotNum == [kind |-> "num", val |-> EmptyObj]
SlotObj(o) == [kind |-> "obj", val |-> o]

\* Values loadTrainingData returns: null (or a falsy value), a truthy
\* non-object, or an object.
Null == [kind |-> "null", val |-> EmptyObj]
NumVal == [kind |-> "num", val |-> EmptyObj]
ObjVal(o) == [kind |-> "obj", val |-> o]

Truthy(v) == v.kind # "null"

\* JSON.stringify followed by JSON.parse on a snapshot object: keys whose
\* value is undefined are left out of the text.
IsUndefAt(o, k) == k \in {"correlationData", "finalMetrics"} /\ o[k] = Undef

Stringify(o) == [k \in {x \in DOMAIN o : ~IsUndefAt(o, x)} |-> o[k]]

\* mutant: the caller's timestamp is kept
SaveNoStamp(s, data, now, setFails) ==
    IF setFails THEN s ELSE SlotObj(Stringify(data))

\* mutant: the record is written over the stored one, field by field
SaveOverOld(s, data, now, setFails) ==
    IF setFails THEN s
    ELSE SlotObj(Stringify(Spread(Spread(s.val, data), [timestamp |-> now])))

\* saveTrainingData(data): the slot afterwards.  setFails: setItem throws.
SaveTrainingData(s, data, now, setFails) ==
    IF setFails THEN s
    ELSE SlotObj(Stringify(Spread(data, [timestamp |-> now])))

\* loadTrainingData(): the value returned.  getFails: getItem throws.
LoadTrainingData(s, getFails) ==
    IF getFails THEN Null
    ELSE CASE s.kind = "none" -> Null
           [] s.kind = "empty" -> Null
           [] s.kind = "garbage" -> Null
           [] s.kind = "falsy" -> Null
           [] s.kind = "num" -> NumVal
           [] s.kind = "obj" -> ObjVal(s.val)

\* clearTrainingData(): the slot afterwards.
ClearTrainingData(s, removeFails) == IF removeFails THEN s ELSE SlotNone

\* mutant: the spread the other way round, the stored fields win
UpdateRecordExistingWins(existing, updates, now) ==
    IF Truthy(existing)
    THEN Spread(Spread(updates, existing.val), [timestamp |-> now])
    ELSE Spread(Spread([progressHistory |-> <<>>], updates), [timestamp |-> now])

\* the object updateTrainingData hands to saveTrainingData
UpdateRecord(existing, updates, now) ==
    IF Truthy(existing)
    THEN Spread(Spread(existing.val, updates), [timestamp |-> now])
    ELSE Spread(Spread([progressHistory |-> <<>>], updates), [timestamp |-> now])

\* updateTrainingData(updates): the slot afterwards.
UpdateTrainingData(s, updates, now0, now, getFails, setFails) ==
    SaveTrainingData(s, UpdateRecord(LoadTrainingData(s, getFails), updates, now0),
                     now, setFails)

\* ------------------------------------------------------------------ state
MaxJobs == 2
MaxStarts == 1
MaxTicks == 2

NoTask == 0

\* eventSourceRef.current: task 0 when the ref is null.  state is "open"
\* until the client calls close() ("closed") or the browser gives up the
\* connection after a fatal error ("failed").
NoEs == [task |-> NoTask, state |-> "closed"]

\* ----------------------------------------------------- Progress Publisher
\* The server is not part of these sources; the publisher follows section
\* 4.3 of the specification.  count[j] is the number of ticks published for
\* job j (tick k of a job is its k-th publish).  An observer is one stream
\* session: the job it subscribed to, whether it is attached, how many
\* ticks of the job had been published when it subscribed, and the ticks it
\* was sent.
PubJobs == 1..MaxJobs

\* jobs the Registry creates in the registry and runner specification
MaxCreated == 1

Observers == {1, 2}

NoObserver == [job |-> NoTask, attached |-> FALSE, joinedAt |-> 0, got |-> <<>>]

\* status[j] is the Registry's status of job j ("none" before create) and
\* ticks[j] the statuses of the ticks the job's Runner has emitted (sections
\* 3, 4.1 and 4.2 of the specification).
PubInit ==
    [count |-> [j \in PubJobs |-> 0], obs |-> [o \in Observers |-> NoObserver],
     status |-> [j \in PubJobs |-> "none"], ticks |-> [j \in PubJobs |-> <<>>]]

\* mutant: a new observer is first sent what was published before
SubscribedWithReplay(j, published) ==
    [job |-> j, attached |-> TRUE, joinedAt |-> published,
     got |-> [k \in 1..published |-> k]]

\* subscribe(jobId): the observer registered for delivery from now on
Subscribed(j, published) ==
    [job |-> j, attached |-> TRUE, joinedAt |-> published, got |-> <<>>]

\* publish(jobId, tick): the observer afterwards; sent is whether the send
\* to it went through (a slow or disconnected observer is skipped)
Published(ob, j, k, sent) ==
    IF ob.attached /\ ob.job = j /\ sent
    THEN [ob EXCEPT !.got = Append(@, k)]
    ELSE ob

JobStatuses == {"pending", "running", "completed", "failed"}

TerminalStatus(st) == st \in {"completed", "failed"}

\* pending -> running -> completed | failed
LegalTransition(from, to) ==
    \/ from = "pending" /\ to = "running"
    \/ from = "running" /\ to \in {"completed", "failed"}

\* mutant: the status is overwritten whatever it was
SetStatusOverwrites(from, to) == to

\* setStatus(jobId, status): the status afterwards; an illegal transition
\* fails and leaves the status as it was
SetStatus(from, to) == IF LegalTransition(from, to) THEN to ELSE from

\* publish(jobId, tick) on the whole publisher: tick number count[j] + 1
\* goes to the observers of j that the send reaches
PublishedTo(p, j, sent) ==
    [p EXCEPT !.count[j] = @ + 1,
              !.obs = [o \in Observers |->
                         Published(p.obs[o], j, p.count[j] + 1, sent[o])]]

\* mutant: a failure inside the run ends it without a tick
RunnerEndsSilent(p, j, tick, sent) ==
    IF tick = "error" THEN p
    ELSE [PublishedTo(p, j, sent) EXCEPT !.ticks[j] = Append(@, tick)]

\* the Runner emits a tick with the given status
RunnerEmits(p, j, tick, sent) ==
    [PublishedTo(p, j, sent) EXCEPT !.ticks[j] = Append(@, tick)]

\* mutant: closing the last session of a job cancels the job
DetachedCancels(p, o) ==
    LET j == p.obs[o].job
    IN IF p.obs[o].attached /\ p.status[j] = "running"
       THEN [p EXCEPT !.obs[o].attached = FALSE, !.status[j] = "failed"]
       ELSE [p EXCEPT !.obs[o].attached = FALSE]

\* unsubscribe: the observer is removed, nothing else changes
Detached(p, o) == [p EXCEPT !.obs[o].attached = FALSE]

\* ------------------------------------------------- PredictionSliders
\* the debounce delay of 300 ms, in units of 100 ms
Debounce == 3

\* how long the sliders are watched, in units of 100 ms
MaxTime == 6

\* prediction requests issued
MaxRequests == 2

\* two of the sliders and two positions of each
SliderKeys == {"T_wellhead", "dp_choke"}

SliderValues == {10, 15}

\* featureConfigs' defaultValue
DefaultValues == [T_wellhead |-> 10, dp_choke |-> 15]

\* a pending setTimeout: when it is due and the values its callback holds
Timers == [due : 0..(MaxTime + Debounce), values : [SliderKeys -> SliderValues]]

\* the component after its first render and effect: no prediction yet and
\* the debounce timer for the default values running
SlidersInit ==
    [values |-> DefaultValues,
     timers |-> {[due |-> Debounce, values |-> DefaultValues]},
     changedAt |-> 0, now |-> 0, requests |-> <<>>, inflight |-> {},
     prediction |-> <<>>, loading |-> FALSE, error |-> "none"]

\* setValues(prev => ({ ...prev, [key]: value }))
Changed(values, key, v) == [values EXCEPT ![key] = v]

\* mutant: the effect sets its timer without clearing the previous one
DebouncedNoCleanup(timers, values, now) ==
    timers \cup {[due |-> now + Debounce, values |-> values]}

\* the effect on [values]: the cleanup of the previous run clears its
\* timer, then a timer is set that calls updatePrediction(values)
Debounced(timers, values, now) ==
    {[due |-> now + Debounce, values |-> values]}

\* updatePrediction up to its await: the request goes out
Requested(s, values) ==
    [s EXCEPT !.loading = TRUE, !.error = "none",
              !.requests = Append(@, [values |-> values, at |-> s.now]),
              !.inflight = @ \cup {Len(s.requests) + 1}]

\* updatePrediction after its await: the response to request i is shown,
\* or its failure
Answered(s, i, ok) ==
    [s EXCEPT !.inflight = @ \ {i},
              !.loading = FALSE,
              !.prediction = IF ok THEN <<s.requests[i].values>> ELSE <<>>,
              !.error = IF ok THEN @ ELSE "predict"]

VARIABLES
    phase,            \* TrainingPage: "unmounted", "mounted" or "crashed"
    taskId,           \* useState taskId (NoTask for null)
    progressHistory,  \* useState progressHistory
    isTraining,       \* useState isTraining
    error,            \* useState error ("none" for null)
    starting,         \* startTraining requests awaiting their response
    progress,         \* useTrainingProgress: progress, <<>> for null
    progressError,    \* useTrainingProgress: error ("none" for null)
    es,               \* the EventSource held by eventSourceRef
    dirty,            \* effects whose dependencies changed and have not run
    slot,             \* localStorage[STORAGE_KEY]
    clock,            \* Date.now(); the page runs at one instant, the store
                      \* specifications let time pass between calls
    nextJob,          \* next task id the server hands out
    progressJob,      \* history: the task whose session delivered progress
    terminalJobs,     \* history: tasks whose terminal tick was merged
    call,             \* snapshot store exercised directly: the last call
    upd,              \* two contexts inside updateTrainingData
    lastSaver,        \* the context whose save ran last
    faulty,           \* localStorage may throw (unavailable, quota exceeded)
    foldStart,        \* reconciler exercised directly: the history it began with
    folded,           \* reconciler exercised directly: the ticks merged so far
    pub,              \* server side: the Progress Publisher
    sl                \* PredictionSliders: its state, timers and requests

pageVars == <<phase, taskId, progressHistory, isTraining, error, starting,
              progress, progressError, es, dirty, nextJob, progressJob,
              terminalJobs>>

vars == <<phase, taskId, progressHistory, isTraining, error, starting,
          progress, progressError, es, dirty, slot, clock, nextJob,
          progressJob, terminalJobs, call, upd, lastSaver,
          faulty, foldStart, folded, pub, sl>>

\* whether a localStorage call throws
Throws == IF faulty THEN BOOLEAN ELSE {FALSE}

\* A call of the store: its argument, the value it returned (for update:
\* the value it loaded), the slot before it, which localStorage calls threw
\* and the time the save stamped.  For a load, prev is the call before it.
NoPrev == [op |-> "none", arg |-> EmptyObj, before |-> SlotNone, failed |-> FALSE,
           now |-> 0]

NoCall == [op |-> "none", arg |-> EmptyObj, ret |-> Null, before |-> SlotNone,
           getFailed |-> FALSE, setFailed |-> FALSE, now |-> 0, prev |-> NoPrev]

Contexts == {1, 2}

IdleUpd == [pc |-> "idle", updates |-> EmptyObj, existing |-> Null,
            sawSlot |-> SlotNone, failed |-> FALSE]

\* the state of a freshly constructed page, but for its history
PageInitButHistory ==
    /\ phase = "unmounted"
    /\ taskId = NoTask
    /\ isTraining = FALSE
    /\ error = "none"
    /\ starting = 0
    /\ progress = <<>>
    /\ progressError = "none"
    /\ es = NoEs
    /\ dirty = {}
    /\ nextJob = 1
    /\ progressJob = NoTask
    /\ terminalJobs = {}

\* the state of a freshly constructed page
PageInit ==
    /\ PageInitButHistory
    /\ progressHistory = <<>>

Init ==
    /\ PageInit
    /\ slot = SlotNone
    /\ clock = 0
    /\ call = NoCall
    /\ upd = [c \in Contexts |-> IdleUpd]
    /\ lastSaver = 0
    /\ faulty = FALSE
    /\ foldStart = <<>>
    /\ folded = <<>>
    /\ pub = PubInit
    /\ sl = SlidersInit

\* ------------------------------------------------------ restore on mount
Or(a, b) == IF a # Undef THEN a ELSE b

\* mutant: the last entry is rebuilt without the metrics
RestoreCompletedNoMetrics(saved) ==
    LET hist == saved.progressHistory
    IN [i \in 1..Len(hist) |->
          IF i = Len(hist) THEN [hist[i] EXCEPT !.metrics = Undef] ELSE hist[i]]

\* updatedHistory of the restore effect, for a history ending in a
\* completed tick
RestoreCompleted(saved) ==
    LET hist == saved.progressHistory
        corr == Get(saved, "correlationData")
        fin == Get(saved, "finalMetrics")
    IN [i \in 1..Len(hist) |->
          IF i = Len(hist)
          THEN [hist[i] EXCEPT !.correlation_data = Or(corr, hist[i].correlation_data),
                               !.metrics = Or(fin, hist[i].metrics)]
          ELSE IF hist[i].epoch = 0 /\ corr # Undef
               THEN [hist[i] EXCEPT !.correlation_data = corr]
               ELSE hist[i]]

\* savedData.progressHistory.length throws a TypeError
RestoreThrows(savedData) ==
    /\ Truthy(savedData)
    /\ ~Has(savedData.val, "progressHistory")

\* the history the restore effect hands to setProgressHistory
RestoredHistory(savedData) ==
    LET hist == savedData.val.progressHistory
    IN IF hist[Len(hist)].status = "completed"
       THEN RestoreCompleted(savedData.val)
       ELSE hist

\* mutant: a restored history that has not ended puts the page back into
\* the training state
MountResumes ==
    /\ phase = "unmounted"
    /\ \E getFails \in Throws :
        LET savedData == LoadTrainingData(slot, getFails)
        IN IF RestoreThrows(savedData)
           THEN /\ phase' = "crashed"
                /\ UNCHANGED <<progressHistory, dirty, isTraining>>
           ELSE /\ phase' = "mounted"
                /\ IF Truthy(savedData) /\ Len(savedData.val.progressHistory) > 0
                   THEN /\ progressHistory' = RestoredHistory(savedData)
                        /\ dirty' = {"history"}
                        /\ isTraining' =
                              ~IsTerminal(progressHistory'[Len(progressHistory')])
                   ELSE UNCHANGED <<progressHistory, dirty, isTraining>>
    /\ UNCHANGED <<taskId, error, starting, progress, progressError,
                   es, nextJob, progressJob, terminalJobs,
                   slot, clock, call, upd, lastSaver, faulty,
                   foldStart, folded, pub, sl>>

\* The page is mounted: its effects run for the first time.  Only the
\* restore effect does anything (taskId and progress are null).
Mount ==
    /\ phase = "unmounted"
    /\ \E getFails \in Throws :
        LET savedData == LoadTrainingData(slot, getFails)
        IN IF RestoreThrows(savedData)
           THEN /\ phase' = "crashed"
                /\ UNCHANGED <<progressHistory, dirty>>
           ELSE /\ phase' = "mounted"
                /\ IF Truthy(savedData) /\ Len(savedData.val.progressHistory) > 0
                   THEN /\ progressHistory' = RestoredHistory(savedData)
                        /\ dirty' = {"history"}
                   ELSE UNCHANGED <<progressHistory, dirty>>
    /\ UNCHANGED <<taskId, isTraining, error, starting, progress, progressError,
                   es, nextJob, progressJob, terminalJobs,
                   slot, clock, call, upd, lastSaver, faulty,
                   foldStart, folded, pub, sl>>

\* The user leaves the page or reloads it: the hook's cleanup closes the
\* EventSource and every piece of component state is dropped.
Unmount ==
    /\ phase \in {"mounted", "crashed"}
    /\ phase' = "unmounted"
    /\ taskId' = NoTask
    /\ progressHistory' = <<>>
    /\ isTraining' = FALSE
    /\ error' = "none"
    /\ starting' = 0
    /\ progress' = <<>>
    /\ progressError' = "none"
    /\ es' = NoEs
    /\ dirty' = {}
    /\ progressJob' = NoTask
    \* the sessions of the unmounted page are gone and job ids are never
    \* reused, so what is known about their streams is dropped
    /\ terminalJobs' = {}
    /\ UNCHANGED <<nextJob, slot, clock, call, upd, lastSaver, faulty,
                   foldStart, folded, pub, sl>>

\* ------------------------------------------------------------ start a job
\* handleStartTraining up to its await.  The button is disabled while
\* isTraining.  The click is a discrete event: React commits the state
\* changes at once, so the hook's cleanup (taskId became null) and the
\* dashboard's persist effect (history became empty: early return) run
\* within the click.  Updates queued by stream callbacks stay queued.
\* mutant: the click resets the task id but the hook's cleanup does not run
StartClickKeepsSession ==
    /\ phase = "mounted"
    /\ ~isTraining
    /\ starting < MaxStarts
    /\ error' = "none"
    /\ isTraining' = TRUE
    /\ progressHistory' = <<>>
    /\ taskId' = NoTask
    /\ dirty' = dirty \ {"task", "history"}
    /\ starting' = starting + 1
    /\ UNCHANGED <<phase, progress, progressError, nextJob, progressJob, es,
                   terminalJobs, slot, clock, call, upd, lastSaver, faulty,
                   foldStart, folded, pub, sl>>

StartClick ==
    /\ phase = "mounted"
    /\ ~isTraining
    /\ starting < MaxStarts
    /\ error' = "none"
    /\ isTraining' = TRUE
    /\ progressHistory' = <<>>
    /\ taskId' = NoTask
    /\ es' = NoEs
    /\ dirty' = dirty \ {"task", "history"}
    /\ starting' = starting + 1
    /\ UNCHANGED <<phase, progress, progressError, nextJob, progressJob,
                   terminalJobs, slot, clock, call, upd, lastSaver, faulty,
                   foldStart, folded, pub, sl>>

\* startTraining resolves: setTaskId(response.task_id)
StartSucceeds ==
    /\ phase = "mounted"
    /\ starting > 0
    /\ nextJob <= MaxJobs
    /\ taskId' = nextJob
    /\ nextJob' = nextJob + 1
    /\ starting' = starting - 1
    /\ dirty' = dirty \cup {"task"}
    /\ UNCHANGED <<phase, progressHistory, isTraining, error, progress,
                   progressError, es, progressJob, terminalJobs, slot, clock, call, upd, lastSaver, faulty,
                   foldStart, folded, pub, sl>>

\* mutant: the catch block leaves isTraining set
StartFailsStaysTraining ==
    /\ phase = "mounted"
    /\ starting > 0
    /\ error' = "start"
    /\ taskId' = NoTask
    /\ starting' = starting - 1
    /\ dirty' = dirty \cup {"task"}
    /\ UNCHANGED <<phase, progressHistory, isTraining, progress, progressError, es,
                   nextJob, progressJob, terminalJobs, slot, clock, call, upd,
                   lastSaver, faulty, foldStart, folded, pub, sl>>

\* startTraining rejects: the catch block.  "start" stands for the message
\* extractErrorMessage derives from the rejection (the server's detail, the
\* error's own message or the fallback text).
StartFails ==
    /\ phase = "mounted"
    /\ starting > 0
    /\ error' = "start"
    /\ isTraining' = FALSE
    /\ taskId' = NoTask
    /\ starting' = starting - 1
    /\ dirty' = dirty \cup {"task"}
    /\ UNCHANGED <<phase, progressHistory, progress, progressError, es, nextJob,
                   progressJob, terminalJobs,
                   slot, clock, call, upd, lastSaver, faulty,
                   foldStart, folded, pub, sl>>

\* ------------------------------------------------- useTrainingProgress
\* Passive effects of one commit run children first, then the page's
\* effects in the order of their declaration, and the effects of a commit
\* are flushed before the next render: the dashboard's persist effect runs
\* before the hook's [taskId] effect, that one before the merge effect, and
\* the [progressError] effect runs last.  The guards on dirty keep this
\* order; events of the stream may arrive anywhere in between.
\*
\* The effect on [taskId]: the previous run's cleanup closes its
\* EventSource, then subscribeToTrainingProgress opens one for taskId.
SubscribeEffect ==
    /\ phase = "mounted"
    /\ "task" \in dirty
    /\ "history" \notin dirty
    /\ es' = IF taskId = NoTask THEN NoEs ELSE [task |-> taskId, state |-> "open"]
    /\ dirty' = dirty \ {"task"}
    /\ UNCHANGED <<phase, taskId, progressHistory, isTraining, error, starting,
                   progress, progressError, nextJob, progressJob, terminalJobs, slot, clock, call, upd, lastSaver, faulty,
                   foldStart, folded, pub, sl>>

\* mutant: the source is not closed on a terminal tick
KeepOpenOnTerminal(e, t) == e

\* the EventSource after the progress listener handled tick t
AfterTick(e, t) == IF IsTerminal(t) THEN [e EXCEPT !.state = "closed"] ELSE e

\* A frame with a parsable payload arrives: the listener calls onProgress
\* (setProgress, setError(null)) and closes the source on a terminal tick.
Deliver(t) ==
    /\ phase = "mounted"
    /\ es.state = "open"
    /\ progress' = <<t>>
    /\ progressError' = "none"
    /\ es' = AfterTick(es, t)
    /\ dirty' = dirty \cup {"progress"}
    /\ progressJob' = es.task
    /\ UNCHANGED <<phase, taskId, progressHistory, isTraining, error, starting,
                   nextJob, terminalJobs, slot, clock, call, upd, lastSaver, faulty,
                   foldStart, folded, pub, sl>>

\* mutant: the hook's error callback clears the last tick
DeliverMalformedDropsProgress ==
    /\ phase = "mounted"
    /\ es.state = "open"
    /\ progressError' = "parse"
    /\ progress' = <<>>
    /\ dirty' = (dirty \ {"progress"}) \cup {"error"}
    /\ UNCHANGED <<phase, taskId, progressHistory, isTraining, error, starting,
                   es, nextJob, progressJob, terminalJobs, slot, clock, call, upd,
                   lastSaver, faulty, foldStart, folded, pub, sl>>

\* A frame whose payload JSON.parse rejects: onError(error), source kept.
DeliverMalformed ==
    /\ phase = "mounted"
    /\ es.state = "open"
    /\ progressError' = "parse"
    /\ dirty' = dirty \cup {"error"}
    /\ UNCHANGED <<phase, taskId, progressHistory, isTraining, error, starting,
                   progress, es, nextJob, progressJob, terminalJobs, slot, clock, call, upd, lastSaver, faulty,
                   foldStart, folded, pub, sl>>

\* mutant: onerror closes the source (the call commented out at its end)
ConnErrorCloses ==
    /\ phase = "mounted"
    /\ es.state = "open"
    /\ progressError' = "conn"
    /\ dirty' = dirty \cup {"error"}
    /\ es' = [es EXCEPT !.state = "closed"]
    /\ UNCHANGED <<phase, taskId, progressHistory, isTraining, error, starting,
                   progress, nextJob, progressJob, terminalJobs, slot, clock, call,
                   upd, lastSaver, faulty, foldStart, folded, pub, sl>>

\* eventSource.onerror: onError(new Error(...)); the client does not close
\* the source.  The browser either reconnects or gives the connection up.
ConnError ==
    /\ phase = "mounted"
    /\ es.state = "open"
    /\ progressError' = "conn"
    /\ dirty' = dirty \cup {"error"}
    /\ \E fatal \in BOOLEAN :
          es' = IF fatal THEN [es EXCEPT !.state = "failed"] ELSE es
    /\ UNCHANGED <<phase, taskId, progressHistory, isTraining, error, starting,
                   progress, nextJob, progressJob, terminalJobs, slot, clock, call, upd, lastSaver, faulty,
                   foldStart, folded, pub, sl>>

\* ------------------------------------------------------ TrainingPage
\* The effect on [progress]: fold the tick into the history.
\* mutant: the merge effect folds a terminal tick but leaves isTraining set
MergeEffectStaysTraining ==
    /\ phase = "mounted"
    /\ "progress" \in dirty
    /\ "history" \notin dirty
    /\ "task" \notin dirty
    /\ progressHistory' = Merge(progressHistory, progress[1])
    /\ dirty' = (dirty \ {"progress"}) \cup {"history"}
    /\ terminalJobs' = IF IsTerminal(progress[1])
                       THEN terminalJobs \cup {progressJob} ELSE terminalJobs
    /\ UNCHANGED <<phase, taskId, error, starting, progress, progressError, es,
                   nextJob, progressJob, isTraining,
                   slot, clock, call, upd, lastSaver, faulty,
                   foldStart, folded, pub, sl>>

MergeEffect ==
    /\ phase = "mounted"
    /\ "progress" \in dirty
    /\ "history" \notin dirty
    /\ "task" \notin dirty
    /\ progressHistory' = Merge(progressHistory, progress[1])
    /\ isTraining' = IF IsTerminal(progress[1]) THEN FALSE ELSE isTraining
    /\ dirty' = (dirty \ {"progress"}) \cup {"history"}
    /\ terminalJobs' = IF IsTerminal(progress[1])
                       THEN terminalJobs \cup {progressJob} ELSE terminalJobs
    /\ UNCHANGED <<phase, taskId, error, starting, progress, progressError, es,
                   nextJob, progressJob,
                   slot, clock, call, upd, lastSaver, faulty,
                   foldStart, folded, pub, sl>>

\* The effect on [progressError].
ErrorEffect ==
    /\ phase = "mounted"
    /\ "error" \in dirty
    /\ dirty \cap {"history", "task", "progress"} = {}
    /\ dirty' = dirty \ {"error"}
    /\ IF progressError # "none"
       THEN error' = progressError /\ isTraining' = FALSE
       ELSE UNCHANGED <<error, isTraining>>
    /\ UNCHANGED <<phase, taskId, progressHistory, starting, progress,
                   progressError, es, nextJob, progressJob, terminalJobs, slot, clock, call, upd, lastSaver, faulty,
                   foldStart, folded, pub, sl>>

\* ------------------------------------------------- TrainingDashboard
\* mutant: the history is persisted without its newest entry
PersistUpdatesStale(hist) ==
    [progressHistory |-> SubSeq(hist, 1, Len(hist) - 1),
     correlationData |-> hist[Len(hist)].correlation_data,
     finalMetrics |-> hist[Len(hist)].metrics]

\* the partial the persist effect hands to updateTrainingData
PersistUpdates(hist) ==
    [progressHistory |-> hist,
     correlationData |-> hist[Len(hist)].correlation_data,
     finalMetrics |-> hist[Len(hist)].metrics]

\* the snapshot of the final save
PersistFinal(hist, now) ==
    [progressHistory |-> hist,
     correlationData |-> hist[Len(hist)].correlation_data,
     finalMetrics |-> hist[Len(hist)].metrics,
     timestamp |-> now]

\* mutant: the store does not catch what localStorage throws, and the
\* exception leaves the effect
PersistEffectUncaught ==
    /\ phase = "mounted"
    /\ "history" \in dirty
    /\ dirty' = dirty \ {"history"}
    /\ IF Len(progressHistory) = 0
       THEN UNCHANGED <<slot, clock, phase>>
       ELSE \E getFails, setFails \in Throws :
              /\ UNCHANGED clock
              /\ IF getFails \/ setFails
                 THEN phase' = "crashed" /\ UNCHANGED slot
                 ELSE /\ UNCHANGED phase
                      /\ slot' = UpdateTrainingData(slot, PersistUpdates(progressHistory),
                                                    clock, clock, FALSE, FALSE)
    /\ UNCHANGED <<taskId, progressHistory, isTraining, error, starting,
                   progress, progressError, es, nextJob, progressJob,
                   terminalJobs, call, upd, lastSaver, faulty,
                   foldStart, folded, pub, sl>>

\* The effect on [progressHistory].
PersistEffect ==
    /\ phase = "mounted"
    /\ "history" \in dirty
    /\ dirty' = dirty \ {"history"}
    /\ IF Len(progressHistory) = 0
       THEN UNCHANGED <<slot, clock>>
       ELSE \E getFails, setFails, setFails2 \in Throws :
              LET cur == progressHistory[Len(progressHistory)]
                  s1 == UpdateTrainingData(slot, PersistUpdates(progressHistory),
                                           clock, clock, getFails, setFails)
              IN /\ UNCHANGED clock
                 /\ IF cur.status = "completed" /\ cur.metrics # Undef
                    THEN slot' = SaveTrainingData(s1, PersistFinal(progressHistory, clock),
                                                  clock, setFails2)
                    ELSE slot' = s1 /\ setFails2 = FALSE
    /\ UNCHANGED <<phase, taskId, progressHistory, isTraining, error, starting,
                   progress, progressError, es, nextJob, progressJob,
                   terminalJobs, call, upd, lastSaver, faulty,
                   foldStart, folded, pub, sl>>

Next ==
    \/ Mount
    \/ Unmount
    \/ StartClick
    \/ StartSucceeds
    \/ StartFails
    \/ SubscribeEffect
    \/ \E t \in TickInputs : Deliver(t)
    \/ DeliverMalformed
    \/ ConnError
    \/ MergeEffect
    \/ ErrorEffect
    \/ PersistEffect

\* the page, started with an empty localStorage slot
Spec == Init /\ [][Next]_vars

\* a page on which one more job can be started
InitOneJob ==
    /\ phase = "unmounted"
    /\ taskId = NoTask
    /\ isTraining = FALSE
    /\ error = "none"
    /\ starting = 0
    /\ progress = <<>>
    /\ progressError = "none"
    /\ es = NoEs
    /\ dirty = {}
    /\ nextJob = MaxJobs
    /\ progressJob = NoTask
    /\ terminalJobs = {}
    /\ progressHistory = <<>>
    /\ slot = SlotNone
    /\ clock = 0
    /\ call = NoCall
    /\ upd = [c \in Contexts |-> IdleUpd]
    /\ lastSaver = 0
    /\ faulty = FALSE
    /\ foldStart = <<>>
    /\ folded = <<>>
    /\ pub = PubInit
    /\ sl = SlidersInit

\* React runs the effects of a committed render before it handles later
\* events: the dashboard's persist effect, the hook's [taskId] effect and
\* the page's [progress] effect cannot be overtaken for ever by clicks and
\* responses that keep arriving
SpecPageFair ==
    /\ InitOneJob
    /\ [][Next]_vars
    /\ SF_vars(PersistEffect)
    /\ SF_vars(SubscribeEffect)
    /\ SF_vars(MergeEffect)

\* corrupt or foreign content of the slot, as another program version, the
\* user or a truncated write can leave it
ForeignSlots ==
    {SlotNone, SlotEmpty, SlotGarbage, SlotFalsy, SlotNum, SlotObj(EmptyObj),
     SlotObj([timestamp |-> 0])}

InitCorrupt ==
    /\ PageInit
    /\ slot \in ForeignSlots
    /\ clock = 0
    /\ call = NoCall
    /\ upd = [c \in Contexts |-> IdleUpd]
    /\ lastSaver = 0
    /\ faulty = FALSE
    /\ foldStart = <<>>
    /\ folded = <<>>
    /\ pub = PubInit
    /\ sl = SlidersInit

\* the page, started with whatever the slot holds
SpecCorrupt == InitCorrupt /\ [][Next]_vars

\* The server hands out its last id: the page starts one job.
InitFaulty ==
    /\ phase = "unmounted"
    /\ taskId = NoTask
    /\ isTraining = FALSE
    /\ error = "none"
    /\ starting = 0
    /\ progress = <<>>
    /\ progressError = "none"
    /\ es = NoEs
    /\ dirty = {}
    /\ nextJob = MaxJobs
    /\ progressJob = NoTask
    /\ terminalJobs = {}
    /\ progressHistory = <<>>
    /\ slot \in ForeignSlots
    /\ clock = 0
    /\ call = NoCall
    /\ upd = [c \in Contexts |-> IdleUpd]
    /\ lastSaver = 0
    /\ faulty = TRUE
    /\ foldStart = <<>>
    /\ folded = <<>>
    /\ pub = PubInit
    /\ sl = SlidersInit

\* the page over a localStorage whose calls may throw (storage unavailable,
\* quota exceeded), started with whatever the slot holds
SpecFaulty == InitFaulty /\ [][Next]_vars

\* ------------------------------------------ the reconciler on its own
MaxFoldEpoch == 2
MaxFold == 4
ShortFold == 2

\* training ticks of epochs 0..MaxFoldEpoch
FoldTicks ==
    {t \in [epoch : 0..MaxFoldEpoch, status : {"training"}, loss : Losses,
            metrics : {Undef}, correlation_data : {Undef}] : TRUE}

RECURSIVE SeqsUpTo(_, _)
SeqsUpTo(S, n) ==
    IF n = 0 THEN {<<>>}
    ELSE LET shorter == SeqsUpTo(S, n - 1)
         IN shorter \cup {Append(q, x) : q \in {r \in shorter : Len(r) = n - 1}, x \in S}

\* any history, also one no run of the page produces (repeated epochs,
\* descending epochs)
InitFold ==
    /\ PageInitButHistory
    /\ slot = SlotNone
    /\ clock = 0
    /\ call = NoCall
    /\ upd = [c \in Contexts |-> IdleUpd]
    /\ lastSaver = 0
    /\ faulty = FALSE
    /\ \E h \in SeqsUpTo(FoldTicks, MaxLen) :
          /\ progressHistory = h
          /\ foldStart = h
    /\ folded = <<>>
    /\ pub = PubInit
    /\ sl = SlidersInit

\* setProgressHistory(prev => ...) applied to tick t.  From the empty
\* history up to MaxFold ticks are merged, from any other ShortFold.
FoldStep(t) ==
    /\ Len(folded) < (IF foldStart = <<>> THEN MaxFold ELSE ShortFold)
    /\ progressHistory' = Merge(progressHistory, t)
    /\ progress' = <<t>>
    /\ folded' = Append(folded, t)
    /\ UNCHANGED <<phase, taskId, isTraining, error, starting, progressError, es,
                   dirty, slot, clock, nextJob, progressJob, terminalJobs,
                   call, upd, lastSaver, faulty, foldStart, pub, sl>>

NextFold == \E t \in FoldTicks : FoldStep(t)

SpecFold == InitFold /\ [][NextFold]_vars

\* ------------------------------------------- the snapshot store on its own
\* histories the store is handed
HistInputs ==
    {<<>>,
     <<[epoch |-> 0, status |-> "training", loss |-> 120, metrics |-> Undef,
        correlation_data |-> "c1"]>>}

OptionalObjs(k, vals) == {EmptyObj} \cup {[x \in {k} |-> v] : v \in vals}

\* Partial<SavedTrainingData>: any of the keys, the optional ones also
\* given as undefined
PartialInputs ==
    {Spread(Spread(a, b), Spread(c, d)) :
        a \in OptionalObjs("progressHistory", HistInputs),
        b \in OptionalObjs("correlationData", Correlations \cup {Undef}),
        c \in OptionalObjs("finalMetrics", Metrics \cup {Undef}),
        d \in OptionalObjs("timestamp", 0..MaxClock)}

\* SavedTrainingData: progressHistory and timestamp are required
SnapInputs == {x \in PartialInputs : Has(x, "progressHistory") /\ Has(x, "timestamp")}

StoreSlots == ForeignSlots \cup {SlotObj(Stringify(x)) : x \in SnapInputs}

InitStore ==
    /\ PageInit
    /\ slot \in StoreSlots
    /\ clock = 0
    /\ call = NoCall
    /\ upd = [c \in Contexts |-> IdleUpd]
    /\ lastSaver = 0
    /\ faulty = TRUE
    /\ foldStart = <<>>
    /\ folded = <<>>
    /\ pub = PubInit
    /\ sl = SlidersInit

StoreFrame ==
    UNCHANGED <<phase, taskId, progressHistory, isTraining, error, starting,
                progress, progressError, es, dirty, nextJob, progressJob,
                terminalJobs, upd, lastSaver, faulty, foldStart, folded, pub, sl>>

\* The slot the specification starts from is any slot, so one call, and a
\* load after it, cover every sequence of calls.
StoreSave(x) ==
    /\ call.op = "none"
    /\ \E now \in clock..MaxClock, setFails \in Throws :
          /\ slot' = SaveTrainingData(slot, x, now, setFails)
          /\ clock' = now
          /\ call' = [op |-> "save", arg |-> x, ret |-> Null, before |-> slot,
                      getFailed |-> FALSE, setFailed |-> setFails, now |-> now,
                      prev |-> NoPrev]
    /\ StoreFrame

StoreLoad ==
    /\ call.op # "load"
    /\ \E getFails \in Throws :
          call' = [op |-> "load", arg |-> EmptyObj,
                   ret |-> LoadTrainingData(slot, getFails), before |-> slot,
                   getFailed |-> getFails, setFailed |-> FALSE, now |-> clock,
                   prev |-> [op |-> call.op, arg |-> call.arg, before |-> call.before,
                             failed |-> call.setFailed, now |-> call.now]]
    /\ UNCHANGED <<slot, clock>>
    /\ StoreFrame

StoreUpdate(p) ==
    /\ call.op = "none"
    /\ \E now \in clock..MaxClock, getFails, setFails \in Throws :
          /\ slot' = UpdateTrainingData(slot, p, clock, now, getFails, setFails)
          /\ clock' = now
          /\ call' = [op |-> "update", arg |-> p,
                      ret |-> LoadTrainingData(slot, getFails), before |-> slot,
                      getFailed |-> getFails, setFailed |-> setFails, now |-> now,
                      prev |-> NoPrev]
    /\ StoreFrame

StoreClear ==
    /\ call.op = "none"
    /\ \E removeFails \in Throws :
          /\ slot' = ClearTrainingData(slot, removeFails)
          /\ call' = [op |-> "clear", arg |-> EmptyObj, ret |-> Null, before |-> slot,
                      getFailed |-> FALSE, setFailed |-> removeFails, now |-> clock,
                      prev |-> NoPrev]
    /\ UNCHANGED clock
    /\ StoreFrame

NextStore ==
    \/ \E x \in SnapInputs : StoreSave(x)
    \/ StoreLoad
    \/ \E p \in PartialInputs : StoreUpdate(p)
    \/ StoreClear

SpecStore == InitStore /\ [][NextStore]_vars

\* ------------------------------ two contexts inside updateTrainingData
\* Two tabs of the same origin share the slot; each runs updateTrainingData,
\* whose load (line 52) and save (lines 54-65) are separate storage calls.
RacePartials == {p \in PartialInputs : ~Has(p, "timestamp")}

RaceSlots == {SlotNone} \cup {SlotObj(Stringify(x)) : x \in {y \in SnapInputs : y.timestamp = 0}}

InitRace ==
    /\ PageInit
    /\ slot \in RaceSlots
    /\ clock = 0
    /\ call = NoCall
    /\ upd = [c \in Contexts |-> IdleUpd]
    /\ lastSaver = 0
    /\ faulty = FALSE
    /\ foldStart = <<>>
    /\ folded = <<>>
    /\ pub = PubInit
    /\ sl = SlidersInit

RaceFrame ==
    UNCHANGED <<phase, taskId, progressHistory, isTraining, error, starting,
                progress, progressError, es, dirty, nextJob, progressJob,
                terminalJobs, call, faulty, foldStart, folded, pub, sl>>

\* const existing = loadTrainingData()
RaceLoad(c, p) ==
    /\ upd[c].pc = "idle"
    /\ \E getFails \in Throws :
          upd' = [upd EXCEPT ![c] = [pc |-> "loaded", updates |-> p,
                                     existing |-> LoadTrainingData(slot, getFails),
                                     sawSlot |-> slot, failed |-> FALSE]]
    /\ UNCHANGED <<slot, clock, lastSaver>>
    /\ RaceFrame

\* saveTrainingData({ ...existing, ...updates, timestamp })
RaceSave(c) ==
    /\ upd[c].pc = "loaded"
    /\ \E setFails \in Throws :
          /\ slot' = SaveTrainingData(slot, UpdateRecord(upd[c].existing, upd[c].updates, clock),
                                      clock, setFails)
          /\ upd' = [upd EXCEPT ![c].pc = "done", ![c].failed = setFails]
    /\ lastSaver' = c
    /\ UNCHANGED clock
    /\ RaceFrame

NextRace ==
    \/ \E c \in Contexts, p \in RacePartials : RaceLoad(c, p)
    \/ \E c \in Contexts : RaceSave(c)

SpecRace == InitRace /\ [][NextRace]_vars

\* ------------------------------------------- the publisher on its own
InitPublisher ==
    /\ PageInit
    /\ slot = SlotNone
    /\ clock = 0
    /\ call = NoCall
    /\ upd = [c \in Contexts |-> IdleUpd]
    /\ lastSaver = 0
    /\ faulty = FALSE
    /\ foldStart = <<>>
    /\ folded = <<>>
    /\ pub = PubInit
    /\ sl = SlidersInit

PubFrame ==
    UNCHANGED <<phase, taskId, progressHistory, isTraining, error, starting,
                progress, progressError, es, dirty, slot, clock, nextJob,
                progressJob, terminalJobs, call, upd, lastSaver, faulty,
                foldStart, folded, sl>>

\* a client opens a stream session on job j
Subscribe(o, j) ==
    /\ ~pub.obs[o].attached
    /\ pub' = [pub EXCEPT !.obs[o] = Subscribed(j, pub.count[j])]
    /\ PubFrame

\* the runner hands the next tick of job j to the publisher
Publish(j) ==
    /\ pub.count[j] < MaxTicks
    /\ \E sent \in [Observers -> BOOLEAN] : pub' = PublishedTo(pub, j, sent)
    /\ PubFrame

\* the session ends (disconnect); removing an observer twice is harmless
Unsubscribe(o) ==
    /\ pub' = Detached(pub, o)
    /\ PubFrame

NextPublisher ==
    \/ \E o \in Observers, j \in PubJobs : Subscribe(o, j)
    \/ \E j \in PubJobs : Publish(j)
    \/ \E o \in Observers : Unsubscribe(o)

SpecPublisher == InitPublisher /\ [][NextPublisher]_vars

\* ------------------------------------------------- PredictionSliders
SlidersFrame ==
    UNCHANGED <<phase, taskId, progressHistory, isTraining, error, starting,
                progress, progressError, es, dirty, slot, clock, nextJob,
                progressJob, terminalJobs, call, upd, lastSaver, faulty,
                foldStart, folded, pub>>

\* the user moves a slider: handleSliderChange, the render and the effect
SliderChange(key, v) ==
    /\ v # sl.values[key]
    /\ sl' = [sl EXCEPT !.values = Changed(@, key, v),
                        !.timers = Debounced(@, Changed(sl.values, key, v), sl.now),
                        !.changedAt = sl.now]
    /\ SlidersFrame

\* 100 ms pass; a timer that is due runs first
TimePasses ==
    /\ sl.now < MaxTime
    /\ \A t \in sl.timers : sl.now < t.due
    /\ sl' = [sl EXCEPT !.now = @ + 1]
    /\ SlidersFrame

\* a debounce timer expires: updatePrediction(values) with the values of
\* the render that set it
TimerFires(t) ==
    /\ t \in sl.timers
    /\ sl.now = t.due
    /\ Len(sl.requests) < MaxRequests
    /\ sl' = [Requested(sl, t.values) EXCEPT !.timers = @ \ {t}]
    /\ SlidersFrame

\* the response to a request arrives; responses arrive in any order
Response(i, ok) ==
    /\ i \in sl.inflight
    /\ sl' = Answered(sl, i, ok)
    /\ SlidersFrame

NextSliders ==
    \/ \E key \in SliderKeys, v \in SliderValues : SliderChange(key, v)
    \/ TimePasses
    \/ \E t \in Timers : TimerFires(t)
    \/ \E i \in 1..MaxRequests, ok \in BOOLEAN : Response(i, ok)

SpecSliders == InitPublisher /\ [][NextSliders]_vars

\* -------------------------------------- registry, runner and publisher
\* every send to an attached observer goes through (the skipping of a slow
\* observer is covered by SpecPublisher)
AllSent == [o \in Observers |-> TRUE]

\* create(datasetRef): a fresh id, Job{status = pending}; the Runner is
\* spawned and the call returns
Create(j) ==
    /\ j <= MaxCreated
    /\ pub.status[j] = "none"
    /\ \A i \in PubJobs : i < j => pub.status[i] # "none"
    /\ pub' = [pub EXCEPT !.status[j] = "pending"]
    /\ PubFrame

\* setStatus(jobId, status) called with a status that is no legal next
\* one: a programming error, which the Registry refuses
SetStatusCall(j, st) ==
    /\ pub.status[j] # "none"
    /\ ~LegalTransition(pub.status[j], st)
    /\ pub' = [pub EXCEPT !.status[j] = SetStatus(@, st)]
    /\ PubFrame

\* the Runner begins
RunnerStarts(j) ==
    /\ pub.status[j] = "pending"
    /\ pub' = [pub EXCEPT !.status[j] = SetStatus(@, "running")]
    /\ PubFrame

\* the Runner has finished an epoch: a training tick
RunnerTick(j) ==
    /\ pub.status[j] = "running"
    /\ pub.count[j] < MaxTicks
    /\ pub' = RunnerEmits(pub, j, "training", AllSent)
    /\ PubFrame

\* the Runner ends: with success it emits the completed tick, on an
\* internal failure the error tick; then it stops
RunnerEnds(j) ==
    /\ pub.status[j] = "running"
    /\ \E tick \in {"completed", "error"} :
          pub' = [RunnerEmits(pub, j, tick, AllSent) EXCEPT
                     !.status[j] = SetStatus(@, IF tick = "completed"
                                                THEN "completed" ELSE "failed")]
    /\ PubFrame

\* a client opens a stream session on a job the Registry knows; a session
\* is opened once and, once closed, is not opened again
Attach(o, j) ==
    /\ pub.status[j] # "none"
    /\ pub.obs[o] = NoObserver
    /\ Subscribe(o, j)

\* the client closes its session
Detach(o) ==
    /\ pub.obs[o].attached
    /\ pub' = Detached(pub, o)
    /\ PubFrame

NextServer ==
    \/ \E j \in PubJobs : Create(j)
    \/ \E j \in PubJobs, st \in JobStatuses : SetStatusCall(j, st)
    \/ \E j \in PubJobs : RunnerStarts(j)
    \/ \E j \in PubJobs : RunnerTick(j)
    \/ \E j \in PubJobs : RunnerEnds(j)
    \/ \E o \in Observers, j \in PubJobs : Attach(o, j)
    \/ \E o \in Observers : Detach(o)

SpecServer == InitPublisher /\ [][NextServer]_vars

\* forward progress of the Runner (section 4.2): a spawned Runner begins,
\* and a running one does not hang
SpecServerFair ==
    /\ InitPublisher
    /\ [][NextServer]_vars
    /\ \A j \in PubJobs : WF_vars(RunnerStarts(j)) /\ WF_vars(RunnerEnds(j))

\* ================================================================ claims

\* C1: merging a tick is idempotent: once tick t has been merged into any
\* history, merging t again gives the same history, entry for entry.
C1_MergeIdempotent ==
    folded # <<>> =>
        Merge(progressHistory, folded[Len(folded)]) = progressHistory

\* C1 witness: a tick merged into a history that began with two entries of
\* its epoch, both of which now hold it.
C1_Witness ==
    /\ Len(folded) = 1
    /\ Len(foldStart) = 2
    /\ foldStart[1].epoch = folded[1].epoch
    /\ foldStart[2].epoch = folded[1].epoch
    /\ foldStart[1] # folded[1]
    /\ progressHistory = <<folded[1], folded[1]>>

\* C2 (as claimed): whatever the order of arrival, the history of the page
\* is sorted by ascending epoch.
C2_HistorySorted == IsSorted(progressHistory)

\* the step of the page's merge effect
MergeStep == "progress" \in dirty /\ "progress" \notin dirty' /\ phase' = "mounted"

\* C3: a tick whose epoch is already in the history replaces that entry in
\* place: same length, same order of epochs, the other entries untouched,
\* and the entry of that epoch is the tick.
C3_ReplaceInPlace ==
    [][\A t \in FoldTicks :
         (folded' = Append(folded, t)
            /\ \E i \in 1..Len(progressHistory) : progressHistory[i].epoch = t.epoch)
         => /\ Len(progressHistory') = Len(progressHistory)
            /\ Epochs(progressHistory') = Epochs(progressHistory)
            /\ \A i \in 1..Len(progressHistory) :
                  progressHistory'[i] =
                     IF progressHistory[i].epoch = t.epoch THEN t ELSE progressHistory[i]]_vars

\* C3 witness: ticks of epochs 0,1,2,1 merged into the empty history give
\* three entries ordered 0,1,2, epoch 1 holding the second epoch-1 tick.
C3_Witness ==
    /\ foldStart = <<>>
    /\ Epochs(folded) = <<0, 1, 2, 1>>
    /\ folded[2] # folded[4]
    /\ Epochs(progressHistory) = <<0, 1, 2>>
    /\ progressHistory[2] = folded[4]

\* C4: no two entries of the page's progress history have the same epoch.
C4_UniqueEpochs == UniqueEpochs(progressHistory)

\* C4 witness: a page that restored a full history from the snapshot an
\* earlier page load wrote, and has received no tick itself.
C4_Witness ==
    /\ phase = "mounted"
    /\ progress = <<>>
    /\ Len(progressHistory) = MaxEpoch + 1
    /\ slot.kind = "obj"

\* C5: once the terminal tick of a job has been merged, no tick of that job
\* is merged any more, the job's EventSource is not open, and while the job
\* stays the page's task the history does not change.
C5_NothingAfterTerminal ==
    [][/\ MergeStep => progressJob \notin terminalJobs
       /\ es.task \in terminalJobs => es.state # "open"
       /\ (taskId \in terminalJobs /\ taskId' = taskId /\ phase' = phase)
             => progressHistory' = progressHistory]_vars

\* C5 witness: the terminal tick of the page's job has been merged and
\* persisted, and its session is closed.
C5_Witness ==
    /\ taskId # NoTask
    /\ taskId \in terminalJobs
    /\ es = [task |-> taskId, state |-> "closed"]
    /\ dirty = {}
    /\ Len(progressHistory) = MaxEpoch + 1

\* C6 (as claimed): every tick handed to the progress callback is folded
\* into the history: a tick that waits for the merge effect is not replaced
\* by a tick of another epoch.
C6_EveryTickFolded ==
    [][("progress" \in dirty /\ phase' = "mounted" /\ progress' # progress)
          => progress'[1].epoch = progress[1].epoch]_vars

\* the record updateTrainingData merges over: the loaded one, or one with
\* an empty history when nothing was loaded
UpdateBase(loaded) ==
    IF loaded.kind = "null" THEN [progressHistory |-> <<>>] ELSE loaded.val

\* field k of the stored record o is what partial p gives, else what the
\* base b has; a value of undefined means the field is not stored
MergedAt(o, p, b, k) ==
    LET src == IF Has(p, k) THEN p ELSE b
    IN IF Has(src, k) /\ ~IsUndefAt(src, k)
       THEN Has(o, k) /\ o[k] = src[k]
       ELSE ~Has(o, k)

\* the record a save of x at time now leaves, written out field by field
StoredFor(o, x, now) ==
    /\ DOMAIN o = {k \in DOMAIN x : ~IsUndefAt(x, k)} \cup {"timestamp"}
    /\ \A k \in DOMAIN o \ {"timestamp"} : o[k] = x[k]
    /\ o.timestamp = now

C9_WitnessNoRecord ==
    /\ call.op = "update" /\ ~call.setFailed
    /\ call.before.kind = "none"
    /\ DOMAIN call.arg = {"finalMetrics"}
    /\ slot.val.progressHistory = <<>>

\* C10: updateTrainingData is not atomic.  After two updates whose loads
\* and saves interleave, the record is the one the last save wrote, built
\* from what that update had loaded: a field only the other update wrote
\* is not in it.
C10_LastWriteWins ==
    (\A c \in Contexts : upd[c].pc = "done")
        => LET w == upd[lastSaver]
           IN /\ slot.kind = "obj"
              /\ \A k \in SnapKeys \ {"timestamp"} :
                    MergedAt(slot.val, w.updates, UpdateBase(w.existing), k)

\* C10 witness: both updates loaded the same record before either saved;
\* the first save stored correlationData, which the second update neither
\* loaded nor gave, and the record after both has none.
C10_Witness ==
    /\ \A c \in Contexts : upd[c].pc = "done"
    /\ upd[1].sawSlot = upd[2].sawSlot
    /\ \E c \in Contexts :
          /\ c # lastSaver
          /\ Has(upd[c].updates, "correlationData")
          /\ upd[c].updates.correlationData = "c1"
          /\ ~Has(upd[lastSaver].updates, "correlationData")
          /\ ~Has(UpdateBase(upd[lastSaver].existing), "correlationData")
    /\ ~Has(slot.val, "correlationData")

\* C8 (as claimed): whatever the slot holds, mounting the page does not throw.
C8_CorruptIsCacheMiss == phase # "crashed"

\* a step of the stream's error path: the hook's error callback ran, for a
\* frame that does not parse or for a connection error
TransportErrorStep ==
    /\ phase = "mounted" /\ phase' = "mounted"
    /\ progressError' \in {"parse", "conn"}
    /\ \/ progressError' # progressError
       \/ es.state = "open" /\ es' = [es EXCEPT !.state = "failed"]

\* the step of the page's effect on [progressError]
ErrorEffectStep ==
    /\ phase = "mounted" /\ phase' = "mounted"
    /\ "error" \in dirty /\ "error" \notin dirty'

\* C11: a transport error (connection error, frame that does not parse)
\* leaves the progress history and the last received tick as they were and
\* is put into the hook's error state; the page's effect then copies it to
\* the page's own error state, again without touching history or tick.
C11_TransportErrorKeepsState ==
    [][/\ TransportErrorStep
          => /\ progressHistory' = progressHistory
             /\ progress' = progress
             /\ "error" \in dirty'
       /\ (ErrorEffectStep /\ progressError # "none")
          => /\ error' = progressError
             /\ progressHistory' = progressHistory
             /\ progress' = progress]_vars

\* C11 witness: a connection error after two ticks were folded; it is shown
\* as the page's error, the history and the last tick are still there.
C11_Witness ==
    /\ phase = "mounted"
    /\ error = "conn" /\ progressError = "conn"
    /\ "error" \notin dirty
    /\ Len(progressHistory) = 2
    /\ progress # <<>>
    /\ progress[1] = progressHistory[2]

\* a step in which the client calls close() on its EventSource
ClientCloses ==
    /\ es.state # "closed"
    /\ es'.state = "closed" \/ es'.task # es.task

\* a step in which the session's listener is handed a terminal tick
TerminalTickOn ==
    /\ es.state = "open"
    /\ "progress" \in dirty'
    /\ progress' # <<>> /\ IsTerminal(progress'[1])
    /\ progressJob' = es.task
    /\ es' = [es EXCEPT !.state = "closed"]

FoldedAndPersisted ==
    /\ phase = "mounted"
    /\ progress # <<>>
    /\ dirty \cap {"progress", "history"} = {}
    /\ \E i \in 1..Len(progressHistory) : progressHistory[i] = progress[1]

\* C13 (as claimed): once a completed tick with metrics m has been folded
\* and the history persisted, the snapshot's finalMetrics is m.
C13_FinalMetricsPersisted ==
    (FoldedAndPersisted /\ progress[1].status = "completed"
                        /\ progress[1].metrics # Undef)
        => /\ slot.kind = "obj"
           /\ Get(slot.val, "finalMetrics") = progress[1].metrics

WithCorrelation(h) == {i \in 1..Len(h) : h[i].correlation_data # Undef}

\* C15 (as claimed): once a tick carrying correlation data has been folded
\* and the history persisted, the snapshot's correlationData is that data,
\* also when the ticks folded after it carry none.  (Correlations has one
\* value, so every carrying tick gives the value that is due.)
C15_LatestCorrelationPersisted ==
    (FoldedAndPersisted /\ WithCorrelation(progressHistory) # {})
        => /\ slot.kind = "obj"
           /\ \E i \in WithCorrelation(progressHistory) :
                 Get(slot.val, "correlationData") = progressHistory[i].correlation_data

\* the step of the dashboard's effect on [progressHistory]
PersistStep ==
    /\ phase = "mounted"
    /\ "history" \in dirty /\ "history" \notin dirty'
    /\ starting' = starting
    /\ phase' # "unmounted"

\* the slot's text parses to a truthy value that is not a snapshot (C8)
ParsesToForeign(s) ==
    s.kind = "num" \/ (s.kind = "obj" /\ ~Has(s.val, "progressHistory"))

StartFailsStep ==
    /\ phase = "mounted" /\ phase' = "mounted"
    /\ starting' = starting - 1
    /\ nextJob' = nextJob

\* C17: when the start request fails, the same step shows the failure as
\* the page's error, leaves the page without a task id and out of the
\* training state, and opens no session; and while the page has no task id
\* no step opens one.
C17_StartFailureSurfaced ==
    [][/\ StartFailsStep
          => /\ error' = "start"
             /\ taskId' = NoTask
             /\ ~isTraining'
             /\ es' = es
       /\ (taskId = NoTask /\ taskId' = NoTask /\ es' # es)
          => es'.state # "open"]_vars

\* C17 witness: a start has failed and the page's effects have run: the
\* error is shown, there is no task and no session, and the start button is
\* enabled again.
C17_Witness ==
    /\ phase = "mounted"
    /\ error = "start"
    /\ taskId = NoTask
    /\ es = NoEs
    /\ ~isTraining
    /\ starting = 0
    /\ dirty = {}
    /\ nextJob = 1

\* the page has restored its history on mount; nothing was received,
\* started or persisted since, so the slot is the snapshot it restored from
JustRestored ==
    /\ phase = "mounted"
    /\ progress = <<>>
    /\ "history" \in dirty
    /\ Len(progressHistory) > 0

\* C18: a page mounted over a snapshot with a non-empty history has a
\* history with the snapshot's epochs in the snapshot's order, and when that
\* history ends in a completed tick and the snapshot has finalMetrics, the
\* last entry carries them.
C18_HistorySurvivesRestart ==
    JustRestored
        => /\ slot.kind = "obj"
           /\ Epochs(progressHistory) = Epochs(slot.val.progressHistory)
           /\ LET n == Len(progressHistory)
              IN (slot.val.progressHistory[n].status = "completed"
                     /\ Has(slot.val, "finalMetrics"))
                    => progressHistory[n].metrics = slot.val.finalMetrics

\* C18 witness: a restored history of a completed run, two epochs in
\* order, whose last entry carries the snapshot's finalMetrics.
C18_Witness ==
    /\ JustRestored
    /\ Epochs(progressHistory) = <<0, 1>>
    /\ progressHistory[2].status = "completed"
    /\ Has(slot.val, "finalMetrics")
    /\ progressHistory[2].metrics = slot.val.finalMetrics
    /\ ~isTraining

\* C19 (as claimed): every tick folded into the history was received on the
\* session of the page's current job; once a new job has been requested
\* (the task id is reset, then set to the new job's id) no tick received on
\* the earlier job's session is folded.
C19_FoldedTicksAreOwn ==
    [][MergeStep => progressJob = taskId]_vars

\* C20: a session is sent only ticks published after it subscribed: each
\* tick it got is a tick of its job with a number above the number
\* published when it subscribed, in publishing order, and right after
\* subscribing it has got nothing (nothing was kept for it).
C20_OnlyTicksAfterSubscribe ==
    \A o \in Observers :
        LET ob == pub.obs[o]
        IN /\ \A i \in 1..Len(ob.got) :
                 /\ ob.got[i] > ob.joinedAt
                 /\ ob.got[i] <= pub.count[ob.job]
           /\ \A i, k \in 1..Len(ob.got) : i < k => ob.got[i] < ob.got[k]

\* C20 witness: a session subscribed after one tick of its job was
\* published has got the second tick and not the first, which a session
\* subscribed from the beginning has got.
C20_Witness ==
    \E o, p \in Observers :
        /\ pub.obs[o].job = pub.obs[p].job
        /\ pub.obs[o].joinedAt = 1
        /\ pub.obs[o].got = <<2>>
        /\ pub.obs[p].joinedAt = 0
        /\ pub.obs[p].got = <<1, 2>>

\* how far a status is along pending, running, then completed or failed
StatusRank(st) ==
    CASE st = "none" -> 0
      [] st = "pending" -> 1
      [] st = "running" -> 2
      [] st \in {"completed", "failed"} -> 3

\* C21: a job's status only moves forward along pending, running, then
\* completed or failed, one stage at a time from pending on; a completed or
\* failed job keeps its status for good.
C21_StatusMovesForward ==
    [][\A j \in PubJobs :
          pub'.status[j] # pub.status[j]
             => /\ StatusRank(pub'.status[j]) = StatusRank(pub.status[j]) + 1
                /\ ~TerminalStatus(pub.status[j])]_vars

\* C21 witness: a job has completed or failed after ticks of its own.
C21_Witness ==
    \E j \in PubJobs :
       /\ TerminalStatus(pub.status[j])
       /\ Len(pub.ticks[j]) > 1

TerminalTick(st) == st \in {"completed", "error"}

\* the ticks job j has emitted end with a terminal tick
EndedWithTerminalTick(j) ==
    /\ pub.ticks[j] # <<>>
    /\ TerminalTick(pub.ticks[j][Len(pub.ticks[j])])

\* at most one tick of job j is terminal and no tick follows it; a job
\* that has ended has emitted its terminal tick, the error tick if it failed
TicksOfJobWellFormed(j) ==
    /\ \A k \in 1..Len(pub.ticks[j]) :
          TerminalTick(pub.ticks[j][k]) => k = Len(pub.ticks[j])
    /\ TerminalStatus(pub.status[j]) => EndedWithTerminalTick(j)
    /\ pub.status[j] = "failed" => pub.ticks[j][Len(pub.ticks[j])] = "error"

\* C22: every started job eventually emits a terminal tick, emits at most
\* one and none after it; a run that fails ends with the error tick.
C22_OneTerminalTickEventually ==
    \A j \in PubJobs :
       /\ [](TicksOfJobWellFormed(j))
       /\ (pub.status[j] \in {"pending", "running"}) ~> EndedWithTerminalTick(j)

\* C22 witness: a run has failed after a training tick, and its last tick
\* is the error tick.
C22_Witness ==
    \E j \in PubJobs :
       /\ pub.status[j] = "failed"
       /\ Len(pub.ticks[j]) > 1
       /\ pub.ticks[j][Len(pub.ticks[j])] = "error"

\* observer o's session is closed in this step
SessionCloses(o) == pub.obs[o].attached /\ ~pub'.obs[o].attached

\* nobody is watching job j
Unwatched(j) == \A o \in Observers : ~(pub.obs[o].attached /\ pub.obs[o].job = j)

\* C23: closing a stream session removes that observer and nothing else
\* (statuses, emitted ticks and the other observers are as before), and a
\* job that nobody watches still runs to its terminal tick.
C23_CloseRemovesOnlyObserver ==
    /\ [][\A o \in Observers :
            SessionCloses(o)
               => /\ pub'.status = pub.status
                  /\ pub'.ticks = pub.ticks
                  /\ pub'.count = pub.count
                  /\ \A q \in Observers \ {o} : pub'.obs[q] = pub.obs[q]]_vars
    /\ \A j \in PubJobs :
          (pub.status[j] = "running" /\ Unwatched(j)) ~> EndedWithTerminalTick(j)

\* C23 witness: a job has completed although a session on it was closed
\* while it ran (ticks were emitted that the closed session did not get).
C23_Witness ==
    \E o \in Observers :
       LET j == pub.obs[o].job
       IN /\ j # NoTask
          /\ ~pub.obs[o].attached
          /\ pub.status[j] = "completed"
          /\ Len(pub.obs[o].got) > 0
          /\ Len(pub.obs[o].got) < pub.count[j] - pub.obs[o].joinedAt

\* C24: a session that is open is the session of one job, and once the
\* hook's effect has run for the page's task id (no change of it is
\* pending) it is the session of that task id: none is open while the task
\* id is null, and the previous one was closed when the task id changed.
C24_AtMostOneSession ==
    es.state = "open"
       => /\ es.task # NoTask
          /\ "task" \notin dirty => (taskId # NoTask /\ es.task = taskId)

\* C24 witness: the session of a second job is open, after the first job's
\* session was closed by the new start.
C24_Witness ==
    /\ phase = "mounted"
    /\ es.state = "open"
    /\ es.task = 2
    /\ taskId = 2
    /\ 1 \notin terminalJobs

\* C25: while the session is open (it has not received its terminal tick)
\* the page is in the training state, so the start button is disabled.
C25_TrainingWhileSessionOpen ==
    es.state = "open" => isTraining

\* the step in which the progress listener hands a tick to the hook
DeliverStep ==
    /\ es.state = "open"
    /\ "progress" \in dirty'
    /\ progress' # progress \/ "progress" \notin dirty

\* the terminal tick of job j is waiting for the page's merge effect
TerminalTickPending(j) ==
    /\ phase = "mounted"
    /\ "progress" \in dirty
    /\ progressJob = j
    /\ IsTerminal(progress[1])

\* C26: the step that hands a terminal tick to the progress callback also
\* closes the session; unless the page is left first, the tick is then
\* merged and the page is out of the training state.
C26_TerminalTickEndsTraining ==
    /\ [][(DeliverStep /\ IsTerminal(progress'[1])) => es'.state = "closed"]_vars
    /\ \A j \in 1..MaxJobs :
          TerminalTickPending(j)
             ~> \/ phase # "mounted"
                \/ /\ j \in terminalJobs
                   /\ "progress" \notin dirty
                   /\ ~isTraining
                   /\ \E k \in 1..Len(progressHistory) :
                         progressHistory[k] = progress[1]

\* C26 witness: the completed tick has been merged after training ticks,
\* its session is closed and the page is out of the training state.
C26_Witness ==
    /\ phase = "mounted"
    /\ dirty = {}
    /\ taskId \in terminalJobs
    /\ es = [task |-> taskId, state |-> "closed"]
    /\ ~isTraining
    /\ Len(progressHistory) > 1
    /\ progressHistory[Len(progressHistory)] = progress[1]
    /\ progress[1].status = "completed"

\* the step of the click on the start button
StartStep == phase = "mounted" /\ phase' = "mounted" /\ starting' = starting + 1

\* C27: the start click empties the history and leaves the snapshot as it
\* is; the snapshot is written only for a history that is not empty, and
\* after a start only once a tick of the new job has been merged (the tick
\* last handed over is one of the page's current job).
C27_StartKeepsSnapshot ==
    [][/\ StartStep => (progressHistory' = <<>> /\ slot' = slot)
       /\ slot' # slot
            => /\ progressHistory # <<>>
               /\ taskId # NoTask
               /\ progressJob = taskId]_vars

\* the step in which the page is mounted
MountStep == phase = "unmounted" /\ phase' = "mounted"

\* C28: a freshly mounted page has no task id, no open session and is not
\* in the training state, whatever it restored; only the start click puts
\* it into the training state, a task id is only ever the fresh id of an
\* answered start request, and a session is only opened for the task id.
C28_NoResubscribeAfterRestart ==
    [][/\ MountStep
          => /\ taskId' = NoTask
             /\ ~isTraining'
             /\ es'.state # "open"
             /\ starting' = 0
       /\ (~isTraining /\ isTraining') => StartStep
       /\ (taskId' # taskId /\ taskId' # NoTask)
            => (starting > 0 /\ taskId' = nextJob)
       /\ (es.state # "open" /\ es'.state = "open")
            => (taskId # NoTask /\ es'.task = taskId)]_vars

\* C28 witness: the page was restarted while a job was running; it shows
\* the restored history, which ends with a training tick, and has no task
\* id, no session and is not in the training state.
C28_Witness ==
    /\ phase = "mounted"
    /\ nextJob > 1
    /\ starting = 0
    /\ taskId = NoTask
    /\ es = NoEs
    /\ ~isTraining
    /\ dirty = {}
    /\ progress = <<>>
    /\ progressHistory # <<>>
    /\ progressHistory[Len(progressHistory)].status = "training"

\* C29: once every request has been answered and no timer is pending, a
\* prediction on display is the one for the current slider values.
C29_LatestPredictionShown ==
    (sl.inflight = {} /\ sl.timers = {} /\ sl.prediction # <<>>)
       => sl.prediction[1] = sl.values

\* C30: at most one debounce timer is pending, set for the current values
\* and due 300 ms after the last change; a request goes out only when that
\* timer expires, so once per run of changes, 300 ms after its last change
\* and with the values the sliders have then.
C30_DebouncedRequest ==
    [][/\ Cardinality(sl'.timers) <= 1
       /\ \A t \in sl'.timers :
             t.values = sl'.values /\ t.due = sl'.changedAt + Debounce
       /\ Len(sl'.requests) > Len(sl.requests)
            => /\ Len(sl'.requests) = Len(sl.requests) + 1
               /\ sl'.requests[Len(sl'.requests)] =
                     [values |-> sl.values, at |-> sl.changedAt + Debounce]
               /\ sl.now = sl.changedAt + Debounce
               /\ sl'.timers = {}]_vars

\* C30 witness: two changes 100 ms apart replaced the first timer, and one
\* request went out 300 ms after the second with both new values.
C30_Witness ==
    /\ sl.changedAt = 2
    /\ sl.now = sl.changedAt + Debounce
    /\ sl.timers = {}
    /\ sl.values = [T_wellhead |-> 15, dp_choke |-> 10]
    /\ sl.requests = <<[values |-> sl.values, at |-> sl.now]>>

====
